---- MODULE Spec2Model ----
(***************************************************************************)
(* Deep-Research-Agent: the analyst graph (SubGraphs/AnalystsGraph.py),    *)
(* the interview graph (SubGraphs/InterviewGraph.py) and the research      *)
(* graph (Researcher.py), as state machines over the graph state.          *)
(*                                                                         *)
(* The hosted model and the search providers are the environment: what     *)
(* they return is a nondeterministic choice.  Of a message only what the   *)
(* code reads is kept: its class, its name, and whether its content holds  *)
(* the farewell phrase.  Report texts are sequences of characters.         *)
(* Calls to the hosted model are taken to return.  The messages list of    *)
(* the analyst and research graphs, which no node or router of theirs      *)
(* reads, is left out.                                                     *)
(***************************************************************************)
EXTENDS Integers, Sequences, FiniteSets, TLC

VARIABLES
    graph,                  \* the compiled graph that is run, or the function applied
    gpc,                    \* position of the analyst / research graph
    topic,                  \* whether the topic text holds the farewell phrase
    human_analyst_feedback, \* state['human_analyst_feedback']
    analysts,               \* state['analysts']
    created,                \* executions of create_analysts so far
    resumed,                \* the checkpoint was resumed since the last create_analysts
    routed,                 \* what the router after human_feedback returned last
    ipc,                    \* per interview: position of the interview graph
    max_num_turns,          \* per interview: state['max_num_turns']
    messages,               \* per interview: state['messages']
    context,                \* per interview: state['context']
    pending,                \* per interview: searches of the current question still running
    failures,               \* per interview: search provider calls that failed so far
    interview,              \* per interview: state['interview'] was written
    sections,               \* per interview: state['sections']
    content,                \* state['content']
    introduction,           \* state['introduction']
    conclusion,             \* state['conclusion']
    final_report            \* state['final_report']

gvars == <<graph, gpc, topic, human_analyst_feedback, analysts, created, resumed, routed>>
ivars == <<ipc, max_num_turns, messages, context, pending, failures, interview, sections>>
rvars == <<content, introduction, conclusion, final_report>>
vars == <<gvars, ivars, rvars>>

----------------------------------------------------------------------------
(* Bounds *)

MaxAnalysts == 2    \* analysts the model may return
MaxTurns == 2       \* largest configured max_num_turns
MaxRounds == 2      \* executions of create_analysts in one run
MaxLen == 3         \* length of the transcripts handed to route_messages alone
MaxPieces == 3      \* pieces a report body is made of

----------------------------------------------------------------------------
(* Values *)

Absent == "Absent"          \* a str key the state does not hold
None == "None"
Unset == <<"<unset>">>      \* a report text the state does not hold
NoTurns == {}               \* max_num_turns: the state does not hold the key
Turns(n) == {n}             \* max_num_turns: the state holds n
TurnsOf(max) == CHOOSE n \in max : TRUE

Feedbacks == {Absent, "", "continue", "add a lawyer"}

\* Python truthiness of a str | None
Truthy(v) == v \notin {Absent, None, ""}

Interviews == 1..MaxAnalysts

HumanMessage(f) == [type |-> "human", name |-> None, farewell |-> f]
AIMessage(n, f) == [type |-> "ai", name |-> n, farewell |-> f]

MessageKinds ==
    {HumanMessage(f) : f \in BOOLEAN} \cup {AIMessage(n, f) : n \in {None, "expert"}, f \in BOOLEAN}

RECURSIVE SeqsUpTo(_, _)
SeqsUpTo(S, n) ==
    IF n = 0 THEN {<<>>}
    ELSE LET shorter == SeqsUpTo(S, n - 1)
         IN shorter \cup {Append(s, x) : s \in {t \in shorter : Len(t) = n - 1}, x \in S}

----------------------------------------------------------------------------
(* SubGraphs/InterviewGraph.py: route_messages *)

\* len([m for m in messages if isinstance(m, AIMessage) and m.name == name])
NumResponses(msgs) ==
    Cardinality({i \in 1..Len(msgs) : msgs[i].type = "ai" /\ msgs[i].name = "expert"})

\* (variant: the cap tested with > instead of >=)
TurnsReached_Strict(num_responses, max) == num_responses > max

\* if num_responses >= max_num_turns
TurnsReached(num_responses, max) == num_responses >= max

\* (variant: messages[-1], the answer, read instead of the question)
LastQuestion_Last(msgs) == msgs[Len(msgs)]

\* last_question = messages[-2]
LastQuestion(msgs) == msgs[Len(msgs) - 1]

\* The value route_messages returns, or the exception it raises.
RouteMessages(msgs, max) ==
    IF max = NoTurns THEN "KeyError"
    ELSE IF TurnsReached(NumResponses(msgs), TurnsOf(max)) THEN "save_interview"
    ELSE IF Len(msgs) < 2 THEN "IndexError"
    ELSE IF LastQuestion(msgs).farewell THEN "save_interview"
    ELSE "ask_question"

----------------------------------------------------------------------------
(* SubGraphs/AnalystsGraph.py and Researcher.py: the routers after human_feedback *)

\* AnalystGraph.should_continue, as a function of the state
ShouldContinue(feedback) ==
    IF Truthy(feedback) /\ feedback # "continue" THEN "create_analysts" ELSE "END"

\* initiate_all_interviews: "create_analysts", or one Send per analyst
InitiateAllInterviews(feedback) ==
    IF Truthy(feedback) THEN "create_analysts" ELSE "conduct_interview"

\* (variant: compiled without interrupt_before)
InterruptBefore_Nothing == {}

\* compile(interrupt_before=['human_feedback'])
InterruptBefore == {"human_feedback"}

\* The payload of one Send: analyst and messages, no max_num_turns.
SendPayload(a) ==
    [max_num_turns |-> NoTurns, messages |-> <<HumanMessage(topic = "farewell")>>]

IdleInterviews ==
    /\ ipc = [a \in Interviews |-> "idle"]
    /\ max_num_turns = [a \in Interviews |-> NoTurns]
    /\ messages = [a \in Interviews |-> <<>>]
    /\ context = [a \in Interviews |-> <<>>]
    /\ pending = [a \in Interviews |-> {}]
    /\ failures = [a \in Interviews |-> 0]
    /\ interview = [a \in Interviews |-> FALSE]
    /\ sections = [a \in Interviews |-> <<>>]

NoReport ==
    /\ content = Unset
    /\ introduction = Unset
    /\ conclusion = Unset
    /\ final_report = Unset

\* graph.invoke(input): the analyst graph ("Team") or the research graph
Init ==
    /\ graph \in {"Team", "Research"}
    /\ gpc = "create_analysts"
    /\ topic \in {"plain", "farewell"}
    /\ human_analyst_feedback \in Feedbacks
    /\ analysts = <<>>
    /\ created = 0
    /\ resumed = FALSE
    /\ routed = "none"
    /\ IdleInterviews
    /\ NoReport

\* create_analysts, then the pause before human_feedback.  The node returns
\* analysts and messages only: the feedback in the graph state stays.
CreateAnalysts ==
    /\ graph \in {"Team", "Research"}
    /\ gpc = "create_analysts"
    /\ created < MaxRounds
    /\ \E n \in 0..MaxAnalysts : analysts' = [i \in 1..n |-> i]
    /\ created' = created + 1
    /\ resumed' = FALSE
    /\ routed' = "none"
    /\ gpc' = IF "human_feedback" \in InterruptBefore THEN "interrupted" ELSE "human_feedback"
    /\ UNCHANGED <<graph, topic, human_analyst_feedback, ivars, rvars>>

\* graph.update_state(..., {"human_analyst_feedback": f}) at the checkpoint
HumanUpdate ==
    /\ gpc = "interrupted"
    /\ \E f \in Feedbacks \ {human_analyst_feedback} : human_analyst_feedback' = f
    /\ UNCHANGED <<graph, gpc, topic, analysts, created, resumed, routed, ivars, rvars>>

\* graph.invoke(None): the run goes on from the checkpoint
Resume ==
    /\ gpc = "interrupted"
    /\ gpc' = "human_feedback"
    /\ resumed' = TRUE
    /\ UNCHANGED <<graph, topic, human_analyst_feedback, analysts, created, routed, ivars, rvars>>

\* human_feedback (a no-op) and the analyst graph's router.  should_continue
\* is declared without self and registered as the bound method
\* self.should_continue, so the call path(state) passes two arguments to a
\* function of one: TypeError.
HumanFeedbackTeam ==
    /\ graph = "Team"
    /\ gpc = "human_feedback"
    /\ routed' = "TypeError"
    /\ gpc' = "failed"
    /\ UNCHANGED <<graph, topic, human_analyst_feedback, analysts, created, resumed, ivars, rvars>>

\* human_feedback (a no-op) and initiate_all_interviews
HumanFeedbackResearch ==
    /\ graph = "Research"
    /\ gpc = "human_feedback"
    /\ routed' = InitiateAllInterviews(human_analyst_feedback)
    /\ IF routed' = "create_analysts"
       THEN /\ gpc' = "create_analysts"
            /\ UNCHANGED ivars
       ELSE /\ gpc' = IF Len(analysts) = 0 THEN "END" ELSE "conduct_interview"
            /\ ipc' = [a \in Interviews |-> IF a <= Len(analysts) THEN "START" ELSE "idle"]
            /\ max_num_turns' = [a \in Interviews |-> SendPayload(a).max_num_turns]
            /\ messages' = [a \in Interviews |->
                              IF a <= Len(analysts) THEN SendPayload(a).messages ELSE <<>>]
            /\ UNCHANGED <<context, pending, failures, interview, sections>>
    /\ UNCHANGED <<graph, topic, human_analyst_feedback, analysts, created, resumed, rvars>>

----------------------------------------------------------------------------
(* SubGraphs/InterviewGraph.py: the interview graph *)

\* An interview runs on its own, or as a conduct_interview task of a research
\* run that has not failed.
Running(a) ==
    /\ graph \in {"Research", "Interview"}
    /\ graph = "Research" => gpc = "conduct_interview"
    /\ ipc[a] \notin {"idle", "END"}

\* ask_question: generate_question appends the analyst's question; both
\* searches are triggered.
AskQuestion(a) ==
    /\ Running(a)
    /\ ipc[a] \in {"START", "ask_question"}
    /\ \E f \in BOOLEAN :
          messages' = [messages EXCEPT ![a] = Append(@, AIMessage(None, f))]
    /\ pending' = [pending EXCEPT ![a] = {"search_web", "search_wikipedia"}]
    /\ ipc' = [ipc EXCEPT ![a] = "search"]
    /\ UNCHANGED <<gvars, max_num_turns, context, failures, interview, sections, rvars>>

\* (variant: the except clause returns no context)
OnSearchError_Nothing == <<>>

\* (variant: answer_question triggered as soon as one search is over)
AfterSearch_Either(stillPending) == "answer_question"

\* add_edge("search_web", "answer_question") and add_edge("search_wikipedia",
\* "answer_question"): both searches run in the step that follows
\* ask_question, and answer_question runs in the step after it.
AfterSearch(stillPending) == IF stillPending = {} THEN "answer_question" ELSE "search"

\* (variant: the answer is left unnamed)
AnswerName_Unnamed == None

\* answer.name = "expert"
AnswerName == "expert"

\* (variant: save_interview wired to END)
StaticEdge_SkipSection(node) == "END"

\* add_edge("save_interview", "write_section"); add_edge("write_section", END)
StaticEdge(node) == IF node = "save_interview" THEN "write_section" ELSE "END"

\* except Exception as e: return {"context": [""]}
OnSearchError == <<"">>

\* One search node: the provider call returns documents or raises.
Search(a, node) ==
    /\ Running(a)
    /\ ipc[a] = "search"
    /\ node \in pending[a]
    /\ \E outcome \in {"ok", "fail"} :
          /\ context' = [context EXCEPT ![a] =
                            @ \o (IF outcome = "ok" THEN <<"docs">> ELSE OnSearchError)]
          /\ failures' = [failures EXCEPT ![a] = IF outcome = "ok" THEN @ ELSE @ + 1]
    /\ pending' = [pending EXCEPT ![a] = @ \ {node}]
    /\ ipc' = [ipc EXCEPT ![a] = AfterSearch(pending'[a])]
    /\ UNCHANGED <<gvars, max_num_turns, messages, interview, sections, rvars>>

SearchWeb(a) == Search(a, "search_web")

SearchWikipedia(a) == Search(a, "search_wikipedia")

\* answer_question: generate_answer appends the expert's answer, then
\* route_messages picks the next node.  An exception it raises ends the
\* interview, and the research run that holds it.
AnswerQuestion(a) ==
    /\ Running(a)
    /\ ipc[a] = "answer_question"
    /\ \E f \in BOOLEAN :
          messages' = [messages EXCEPT ![a] = Append(@, AIMessage(AnswerName, f))]
    /\ ipc' = [ipc EXCEPT ![a] = RouteMessages(messages'[a], max_num_turns[a])]
    /\ gpc' = IF graph = "Research" /\ ipc'[a] \in {"KeyError", "IndexError"}
              THEN "failed" ELSE gpc
    /\ UNCHANGED <<graph, topic, human_analyst_feedback, analysts, created, resumed, routed,
                   max_num_turns, context, pending, failures, interview, sections, rvars>>

\* save_interview
SaveInterview(a) ==
    /\ Running(a)
    /\ ipc[a] = "save_interview"
    /\ interview' = [interview EXCEPT ![a] = TRUE]
    /\ ipc' = [ipc EXCEPT ![a] = StaticEdge("save_interview")]
    /\ UNCHANGED <<gvars, max_num_turns, messages, context, pending, failures, sections, rvars>>

\* write_section: one section, written from the context
WriteSection(a) ==
    /\ Running(a)
    /\ ipc[a] = "write_section"
    /\ sections' = [sections EXCEPT ![a] = <<"section">>]
    /\ ipc' = [ipc EXCEPT ![a] = StaticEdge("write_section")]
    /\ UNCHANGED <<gvars, max_num_turns, messages, context, pending, failures, interview, rvars>>

\* The research graph and the analyst graph.  Every interview of a research
\* run stops in route_messages (its payload holds no max_num_turns), so
\* save_interview, write_section and the report nodes are never reached there.
Next ==
    \/ CreateAnalysts
    \/ HumanUpdate
    \/ Resume
    \/ HumanFeedbackTeam
    \/ HumanFeedbackResearch
    \/ \E a \in Interviews : AskQuestion(a)
    \/ \E a \in Interviews : SearchWeb(a)
    \/ \E a \in Interviews : SearchWikipedia(a)
    \/ \E a \in Interviews : AnswerQuestion(a)

Spec == Init /\ [][Next]_vars

\* interviewSetup.invoke({"analyst", "messages", "max_num_turns"?}): one
\* interview run on its own, with or without max_num_turns in its input.
InitInterview ==
    /\ graph = "Interview"
    /\ gpc = "none"
    /\ topic \in {"plain", "farewell"}
    /\ human_analyst_feedback = Absent
    /\ analysts = <<1>>
    /\ created = 0
    /\ resumed = FALSE
    /\ routed = "none"
    /\ ipc = [a \in Interviews |-> IF a = 1 THEN "START" ELSE "idle"]
    /\ max_num_turns \in {[a \in Interviews |-> IF a = 1 THEN m ELSE NoTurns] :
                             m \in {NoTurns} \cup {Turns(n) : n \in -1..MaxTurns}}
    /\ messages = [a \in Interviews |-> IF a = 1 THEN SendPayload(a).messages ELSE <<>>]
    /\ context = [a \in Interviews |-> <<>>]
    /\ pending = [a \in Interviews |-> {}]
    /\ failures = [a \in Interviews |-> 0]
    /\ interview = [a \in Interviews |-> FALSE]
    /\ sections = [a \in Interviews |-> <<>>]
    /\ NoReport

NextInterview ==
    \/ \E a \in Interviews : AskQuestion(a)
    \/ \E a \in Interviews : SearchWeb(a)
    \/ \E a \in Interviews : SearchWikipedia(a)
    \/ \E a \in Interviews : AnswerQuestion(a)
    \/ \E a \in Interviews : SaveInterview(a)
    \/ \E a \in Interviews : WriteSection(a)

SpecInterview == InitInterview /\ [][NextInterview]_vars

\* The executor runs every node a step has triggered to its end.
SpecInterviewFair == SpecInterview /\ WF_vars(NextInterview)

\* route_messages applied to a transcript and a max_num_turns of any kind
InitRoute ==
    /\ graph = "Route"
    /\ gpc = "none"
    /\ topic = "plain"
    /\ human_analyst_feedback = Absent
    /\ analysts = <<1>>
    /\ created = 0
    /\ resumed = FALSE
    /\ routed = "none"
    /\ ipc = [a \in Interviews |-> IF a = 1 THEN "route" ELSE "idle"]
    /\ max_num_turns \in {[a \in Interviews |-> IF a = 1 THEN m ELSE NoTurns] :
                             m \in {NoTurns} \cup {Turns(n) : n \in 0..MaxTurns}}
    /\ messages \in {[a \in Interviews |-> IF a = 1 THEN t ELSE <<>>] :
                        t \in SeqsUpTo(MessageKinds, MaxLen)}
    /\ context = [a \in Interviews |-> <<>>]
    /\ pending = [a \in Interviews |-> {}]
    /\ failures = [a \in Interviews |-> 0]
    /\ interview = [a \in Interviews |-> FALSE]
    /\ sections = [a \in Interviews |-> <<>>]
    /\ NoReport

Route ==
    /\ graph = "Route"
    /\ ipc[1] = "route"
    /\ ipc' = [ipc EXCEPT ![1] = RouteMessages(messages[1], max_num_turns[1])]
    /\ UNCHANGED <<gvars, max_num_turns, messages, context, pending, failures, interview,
                   sections, rvars>>

SpecRoute == InitRoute /\ [][Route]_vars

----------------------------------------------------------------------------
(* Researcher.py: finalize_report.  A text is a sequence of characters. *)

InsightsHeading == <<"#", "#", " ", "I", "n", "s", "i", "g", "h", "t", "s">>
SourcesHeading == <<"#", "#", " ", "S", "o", "u", "r", "c", "e", "s">>
Newline == <<"\n">>
\* "\n## Sources\n"
SourcesDelimiter == Newline \o SourcesHeading \o Newline
\* "\n\n---\n\n"
Separator == <<"\n", "\n", "-", "-", "-", "\n", "\n">>
\* "\n\n## Sources\n"
SourcesBlockHead == Newline \o Newline \o SourcesHeading \o Newline

Chars(t) == {t[i] : i \in 1..Len(t)}

\* s.startswith(p)
StartsWith(s, p) == Len(s) >= Len(p) /\ SubSeq(s, 1, Len(p)) = p

\* Index of the first occurrence of d in s at or after from, 0 when there is none
Find(s, d, from) ==
    LET hits == {i \in from..(Len(s) - Len(d) + 1) : SubSeq(s, i, i + Len(d) - 1) = d}
    IN IF hits = {} THEN 0 ELSE CHOOSE i \in hits : \A j \in hits : i <= j

\* d in s
Contains(s, d) == Find(s, d, 1) # 0

\* s.strip(chars): every leading and trailing character that is in chars goes
Strip(s, chars) ==
    LET keep == {i \in 1..Len(s) : s[i] \notin Chars(chars)}
    IN IF keep = {} THEN <<>>
       ELSE SubSeq(s, CHOOSE i \in keep : \A j \in keep : i <= j,
                      CHOOSE i \in keep : \A j \in keep : i >= j)

\* s.split(d): the parts between the occurrences of d, found left to right
RECURSIVE Split(_, _)
Split(s, d) ==
    LET i == Find(s, d, 1)
    IN IF i = 0 THEN <<s>>
       ELSE <<SubSeq(s, 1, i - 1)>> \o Split(SubSeq(s, i + Len(d), Len(s)), d)

\* if content.startswith('## Insights'): content = content.strip('## Insights')
StripInsights(c) == IF StartsWith(c, InsightsHeading) THEN Strip(c, InsightsHeading) ELSE c

\* The body and the sources finalize_report takes from the content: the
\* unpacking of the split raises unless there are exactly two parts, and the
\* except clause then leaves the content whole and the sources None.
\* (variant: split at the first delimiter only, as split(..., 1) would)
SplitSources_First(c) ==
    LET i == Find(c, SourcesDelimiter, 1)
    IN IF i # 0
       THEN [content |-> SubSeq(c, 1, i - 1),
             sources |-> SubSeq(c, i + Len(SourcesDelimiter), Len(c)), found |-> TRUE]
       ELSE [content |-> c, sources |-> <<>>, found |-> FALSE]

SplitSources(c) ==
    IF Contains(c, SourcesHeading)
    THEN LET parts == Split(c, SourcesDelimiter)
         IN IF Len(parts) = 2
            THEN [content |-> parts[1], sources |-> parts[2], found |-> TRUE]
            ELSE [content |-> c, sources |-> <<>>, found |-> FALSE]
    ELSE [content |-> c, sources |-> <<>>, found |-> FALSE]

\* (variant: the sources are left in the body)
FinalReport_SourcesInBody(intro, c, concl) ==
    intro \o Separator \o StripInsights(c) \o Separator \o concl

FinalReport(intro, c, concl) ==
    LET parts == SplitSources(StripInsights(c))
    IN intro \o Separator \o parts.content \o Separator \o concl
         \o (IF parts.found THEN SourcesBlockHead \o parts.sources ELSE <<>>)

\* The pieces the report bodies of the model are made of
Pieces == {InsightsHeading, SourcesHeading, SourcesDelimiter, Newline, <<"x">>, <<"t">>}

RECURSIVE Concat(_)
Concat(ps) == IF ps = <<>> THEN <<>> ELSE Head(ps) \o Concat(Tail(ps))

Contents == {Concat(ps) : ps \in SeqsUpTo(Pieces, MaxPieces)}

\* finalize_report applied to a state that holds content, introduction and
\* conclusion
InitReport ==
    /\ graph = "Report"
    /\ gpc = "finalize_report"
    /\ topic = "plain"
    /\ human_analyst_feedback = Absent
    /\ analysts = <<>>
    /\ created = 0
    /\ resumed = FALSE
    /\ routed = "none"
    /\ IdleInterviews
    /\ content \in Contents
    /\ introduction \in {<<"I">>, <<>>}
    /\ conclusion \in {<<"C">>, <<>>}
    /\ final_report = Unset

FinalizeReport ==
    /\ graph = "Report"
    /\ gpc = "finalize_report"
    /\ final_report' = FinalReport(introduction, content, conclusion)
    /\ gpc' = "END"
    /\ UNCHANGED <<graph, topic, human_analyst_feedback, analysts, created, resumed, routed,
                   ivars, content, introduction, conclusion>>

SpecReport == InitReport /\ [][FinalizeReport]_vars

----------------------------------------------------------------------------
(* Properties *)

Max(a, b) == IF a >= b THEN a ELSE b

Stopped(a) == ipc[a] \in {"END", "KeyError", "IndexError"}
Started(a) == ipc[a] # "idle"
AfterAnswer(a) ==
    /\ Len(messages[a]) >= 2
    /\ messages[a][Len(messages[a])].type = "ai"
    /\ messages[a][Len(messages[a])].name = "expert"
IsQuestion(m) == m.type = "ai" /\ m.name = None
Revision(feedback) == feedback \notin {Absent, None, "", "continue"}

\* C1: at the human checkpoint the workflow loops back to create_analysts if
\* and only if the feedback is non-empty and not "continue", and moves forward
\* otherwise; for initiate_all_interviews on the runs of the research graph,
\* for should_continue on every feedback value.
C1_LoopBackIffRevision ==
    /\ graph = "Research" /\ routed # "none" =>
          routed = (IF Revision(human_analyst_feedback)
                    THEN "create_analysts" ELSE "conduct_interview")
    /\ \A f \in Feedbacks :
          ShouldContinue(f) = (IF Revision(f) THEN "create_analysts" ELSE "END")

C3_AnswersWithinConfiguredMax ==
    \A a \in Interviews :
        max_num_turns[a] # NoTurns /\ TurnsOf(max_num_turns[a]) >= 0 =>
            NumResponses(messages[a]) <= TurnsOf(max_num_turns[a])

\* C3 amended: with max_num_turns = N configured, the transcript never holds
\* more than N expert answers when N >= 1, and never more than one when N <= 0.
C3_AnswersWithinMaxOrOne ==
    \A a \in Interviews :
        max_num_turns[a] # NoTurns =>
            NumResponses(messages[a]) <= Max(TurnsOf(max_num_turns[a]), 1)

C3_Witness ==
    \E a \in Interviews :
        /\ max_num_turns[a] = Turns(2)
        /\ NumResponses(messages[a]) = 2
        /\ ipc[a] = "END"

\* C4 as stated: after an expert answer, the farewell phrase anywhere in the
\* transcript makes route_messages return save_interview (checked where
\* max_num_turns is configured).
C4_FarewellAnywhereEnds ==
    \A a \in Interviews :
        /\ max_num_turns[a] # NoTurns
        /\ AfterAnswer(a)
        /\ \E i \in 1..Len(messages[a]) : messages[a][i].farewell
        => ipc[a] \in {"save_interview", "write_section", "END"}

\* C4 amended: after an expert answer, the farewell phrase in the question
\* just answered (the second-to-last message) ends the questioning:
\* route_messages does not return ask_question, it returns save_interview
\* wherever max_num_turns is configured, and no question follows a question
\* that holds the phrase.
C4_FarewellInLastQuestionEnds ==
    \A a \in Interviews :
        /\ AfterAnswer(a) /\ messages[a][Len(messages[a]) - 1].farewell =>
              /\ ipc[a] # "ask_question"
              /\ max_num_turns[a] # NoTurns =>
                    ipc[a] \in {"save_interview", "write_section", "END"}
        /\ \A i \in 1..Len(messages[a]) :
              IsQuestion(messages[a][i]) /\ messages[a][i].farewell => i >= Len(messages[a]) - 1

C4_Witness ==
    \E a \in Interviews :
        /\ max_num_turns[a] = Turns(2)
        /\ AfterAnswer(a)
        /\ NumResponses(messages[a]) = 1
        /\ messages[a][Len(messages[a]) - 1].farewell
        /\ ~messages[a][1].farewell
        /\ ipc[a] = "END"

\* C5: every execution of create_analysts leaves the run paused before
\* human_feedback until it is resumed, human_feedback runs only after a
\* resume, and an interview is started only after the checkpoint that follows
\* the most recent create_analysts was resumed; no report text exists before
\* the interviews.
C5_CheckpointBeforeInterviews ==
    /\ created > 0 /\ ~resumed => gpc = "interrupted"
    /\ gpc = "human_feedback" => resumed
    /\ (\E a \in Interviews : Started(a)) /\ graph = "Research" =>
          /\ resumed
          /\ created > 0
          /\ routed = "conduct_interview"
    /\ gpc \in {"create_analysts", "interrupted", "human_feedback"} =>
          /\ \A a \in Interviews : ~Started(a)
          /\ final_report = Unset

C5_Witness ==
    /\ graph = "Research"
    /\ created = 2
    /\ \E a \in Interviews : ipc[a] = "answer_question"

\* C6: a step in which a search provider call fails appends exactly one
\* empty string to the context, leaves the messages alone and keeps the
\* interview on its way to answer_question, which is next once both searches
\* are over.
C6_SearchFailureIsSwallowed ==
    [][\A a \in Interviews :
          failures'[a] = failures[a] + 1 =>
              /\ context'[a] = Append(context[a], "")
              /\ messages'[a] = messages[a]
              /\ ipc'[a] = IF pending'[a] = {} THEN "answer_question" ELSE "search"
              /\ gpc' = gpc]_vars

C6_Witness ==
    \E a \in Interviews :
        /\ failures[a] = 2
        /\ context[a] = <<"", "">>
        /\ NumResponses(messages[a]) = 1

NoBlockShape(report, intro, concl) ==
    /\ Len(report) >= Len(intro) + 2 * Len(Separator) + Len(concl)
    /\ StartsWith(report, intro \o Separator)
    /\ SubSeq(report, Len(report) - Len(Separator \o concl) + 1, Len(report)) = Separator \o concl

BlockShape(report, intro, concl) ==
    \E k \in 0..Len(report) :
        /\ NoBlockShape(SubSeq(report, 1, k), intro, concl)
        /\ StartsWith(SubSeq(report, k + 1, Len(report)), Newline \o Newline \o SourcesHeading)

\* C7 as stated: the final report is introduction, body and conclusion
\* separated by "\n\n---\n\n", followed by a "## Sources" block if and only if
\* the content holds a "## Sources" heading.
C7_SourcesBlockIffHeading ==
    final_report # Unset =>
        IF Contains(content, SourcesHeading)
        THEN BlockShape(final_report, introduction, conclusion)
        ELSE NoBlockShape(final_report, introduction, conclusion)

\* C7 amended: with c the content after the "## Insights" step, the final
\* report is introduction, body and conclusion separated by "\n\n---\n\n",
\* followed by "\n\n## Sources\n" and the sources if and only if
\* "\n## Sources\n" occurs in c exactly once (read left to right, without
\* overlap); body and sources are then the text before and after it, and
\* otherwise the body is all of c.
C7_SourcesBlockIffOneDelimiter ==
    final_report # Unset =>
        LET c == StripInsights(content)
            d == <<"\n">> \o SourcesHeading \o <<"\n">>
            i == Find(c, d, 1)
            once == i # 0 /\ Find(c, d, i + Len(d)) = 0
        IN IF once
           THEN final_report =
                    introduction \o Separator \o SubSeq(c, 1, i - 1) \o Separator \o conclusion
                      \o <<"\n", "\n">> \o SourcesHeading \o <<"\n">>
                      \o SubSeq(c, i + Len(d), Len(c))
           ELSE final_report = introduction \o Separator \o c \o Separator \o conclusion

C7_Witness ==
    /\ content = <<"x">> \o SourcesDelimiter \o <<"t">>
    /\ introduction = <<"I">>
    /\ conclusion = <<"C">>
    /\ final_report = <<"I">> \o Separator \o <<"x">> \o Separator \o <<"C">>
                         \o SourcesBlockHead \o <<"t">>

\* C8: when the research graph leaves the checkpoint towards the interviews
\* the analysts list is non-empty and an interview is started; the run does
\* not end without a final report.
C8_AnalystsNonEmptyAtFanOut ==
    graph = "Research" /\ routed = "conduct_interview" =>
        /\ Len(analysts) > 0
        /\ \E a \in Interviews : Started(a)
        /\ gpc = "END" => final_report # Unset

\* C9: the fan-out starts exactly one interview per analyst, and every
\* interview that has stopped has written exactly one section.
C9_OneSectionPerAnalyst ==
    graph = "Research" /\ routed = "conduct_interview" =>
        /\ Cardinality({a \in Interviews : Started(a)}) = Len(analysts)
        /\ \A a \in Interviews : Stopped(a) => Len(sections[a]) = 1

\* C10: in every interview the fan-out starts, route_messages, evaluated
\* after the first expert answer, returns one of its two branches.
C10_RouteReturnsABranch ==
    \A a \in Interviews :
        graph = "Research" /\ Started(a) /\ NumResponses(messages[a]) >= 1 =>
            ipc[a] \in {"ask_question", "search", "answer_question",
                        "save_interview", "write_section", "END"}

\* C11: finalize_report runs exactly once per research run, after the
\* interviews and the three writers: a research run that started its
\* interviews and has ended holds the final report, with content,
\* introduction and conclusion set.
C11_FinalizeRunsOncePerRun ==
    /\ graph = "Research"
    /\ \E a \in Interviews : Started(a)
    /\ gpc \in {"END", "failed"}
    => /\ final_report # Unset
       /\ content # Unset /\ introduction # Unset /\ conclusion # Unset
       /\ \A a \in Interviews : Started(a) => ipc[a] = "END"

\* C12: once create_analysts has run again in response to feedback, the
\* feedback in the graph state is empty.
C12_FeedbackConsumed ==
    [][/\ routed = "create_analysts"
       /\ Revision(human_analyst_feedback)
       /\ created' = created + 1
       => ~Truthy(human_analyst_feedback')]_vars

Questions(msgs) == {i \in 1..Len(msgs) : IsQuestion(msgs[i])}
Routed(a) ==
    ipc[a] \in {"ask_question", "save_interview", "write_section", "END",
                "KeyError", "IndexError"}

\* C13: whenever route_messages has been evaluated the transcript holds at
\* least two messages, the last one the expert answer just produced and the
\* one before it the analyst question; after the opening message the
\* transcript alternates question, answer.
C13_TranscriptAlternates ==
    \A a \in Interviews :
        /\ Routed(a) =>
              /\ Len(messages[a]) >= 2
              /\ messages[a][Len(messages[a])] \in {AIMessage("expert", f) : f \in BOOLEAN}
              /\ IsQuestion(messages[a][Len(messages[a]) - 1])
        /\ \A i \in 2..Len(messages[a]) :
              IF i % 2 = 0 THEN IsQuestion(messages[a][i])
              ELSE messages[a][i].type = "ai" /\ messages[a][i].name = "expert"

C13_Witness ==
    \E a \in Interviews :
        /\ ipc[a] = "save_interview"
        /\ Len(messages[a]) = 5
        /\ ~messages[a][4].farewell

\* C14: every question triggers both searches, answer_question runs only
\* when both are over and once per question, and whenever it runs, or has
\* run, the context holds exactly two entries per question asked so far.
C14_TwoContextEntriesPerQuestion ==
    \A a \in Interviews :
        /\ ipc[a] = "search" =>
              /\ pending[a] # {}
              /\ Len(context[a]) =
                    2 * Cardinality(Questions(messages[a])) - Cardinality(pending[a])
              /\ NumResponses(messages[a]) = Cardinality(Questions(messages[a])) - 1
        /\ ipc[a] = "answer_question" =>
              /\ pending[a] = {}
              /\ Len(context[a]) = 2 * Cardinality(Questions(messages[a]))
              /\ NumResponses(messages[a]) = Cardinality(Questions(messages[a])) - 1
        /\ Routed(a) =>
              /\ Len(context[a]) = 2 * Cardinality(Questions(messages[a]))
              /\ NumResponses(messages[a]) = Cardinality(Questions(messages[a]))

C14_Witness ==
    \E a \in Interviews :
        /\ ipc[a] = "answer_question"
        /\ Cardinality(Questions(messages[a])) = 2
        /\ failures[a] = 1
        /\ Len(context[a]) = 4

\* C15: every interview with a configured max_num_turns ends: it reaches
\* END, through save_interview and write_section, each run once (END holds
\* the saved interview and exactly one section, and write_section and END
\* are never left for an earlier node).
C15_InterviewTerminates ==
    /\ \A a \in Interviews :
          Started(a) /\ max_num_turns[a] # NoTurns ~> ipc[a] = "END"
    /\ [](\A a \in Interviews :
            /\ ipc[a] = "END" /\ max_num_turns[a] # NoTurns =>
                  interview[a] /\ Len(sections[a]) = 1
            /\ ipc[a] = "write_section" => interview[a] /\ sections[a] = <<>>
            /\ ipc[a] \in {"START", "ask_question", "search", "answer_question",
                            "save_interview"} => ~interview[a] /\ sections[a] = <<>>)
    /\ [][\A a \in Interviews :
            /\ ipc[a] = "save_interview" => ipc'[a] \in {"save_interview", "write_section"}
            /\ ipc[a] = "write_section" => ipc'[a] \in {"write_section", "END"}
            /\ ipc[a] = "END" => ipc'[a] = "END"]_vars

C15_Witness ==
    \E a \in Interviews :
        /\ ipc[a] = "END"
        /\ max_num_turns[a] = Turns(2)
        /\ NumResponses(messages[a]) = 2
        /\ interview[a]
        /\ Len(sections[a]) = 1

\* The part of a report between the introduction and the conclusion, when
\* the conclusion ends at position k
Middle(report, intro, concl, k) ==
    SubSeq(report, Len(intro) + Len(Separator) + 1, k - Len(Separator) - Len(concl))

\* C16 as stated: whenever the content holds a "## Sources" heading, wherever
\* and however often, a sources block follows the conclusion and the part
\* between introduction and conclusion holds no "## Sources" heading.
C16_SourcesAlwaysMoved ==
    final_report # Unset /\ Contains(content, SourcesHeading) =>
        \E k \in 0..Len(final_report) :
            /\ NoBlockShape(SubSeq(final_report, 1, k), introduction, conclusion)
            /\ StartsWith(SubSeq(final_report, k + 1, Len(final_report)),
                          Newline \o Newline \o SourcesHeading \o Newline)
            /\ ~Contains(Middle(final_report, introduction, conclusion, k), SourcesHeading)

\* C16 amended: with c the content after the "## Insights" step, whenever
\* "\n## Sources\n" occurs in c exactly once, the text after it is moved to
\* the end of the report, behind the conclusion and "\n\n## Sources\n", and
\* the part between introduction and conclusion is the text before it, which
\* holds no "\n## Sources\n"; in every other case nothing is moved and that
\* part is all of c, "## Sources" headings included.
C16_SourcesMovedWhenOneDelimiter ==
    final_report # Unset =>
        LET c == StripInsights(content)
            d == <<"\n">> \o SourcesHeading \o <<"\n">>
            i == Find(c, d, 1)
            once == i # 0 /\ Find(c, d, i + Len(d)) = 0
            after == SubSeq(c, i + Len(d), Len(c))
            k == IF once THEN Len(final_report) - Len(d) - 1 - Len(after)
                 ELSE Len(final_report)
            body == Middle(final_report, introduction, conclusion, k)
        IN /\ k >= 0
           /\ NoBlockShape(SubSeq(final_report, 1, k), introduction, conclusion)
           /\ IF once
              THEN /\ SubSeq(final_report, k + 1, Len(final_report)) =
                        <<"\n">> \o d \o after
                   /\ body = SubSeq(c, 1, i - 1)
                   /\ ~Contains(body, d)
              ELSE body = c

C16_Witness ==
    /\ content = InsightsHeading \o SourcesDelimiter \o <<"x">>
    /\ final_report = introduction \o Separator \o Separator \o conclusion
                         \o SourcesBlockHead \o <<"x">>
    /\ introduction = <<"I">>

\* C17: when the content starts with "## Insights" exactly that leading
\* heading is removed and every other character is kept; otherwise the
\* content is left as it is (stated for contents without "## Sources", which
\* reach the report in one piece).
C17_OnlyLeadingHeadingRemoved ==
    final_report # Unset /\ ~Contains(content, SourcesHeading) =>
        final_report =
            introduction \o Separator
              \o (IF StartsWith(content, InsightsHeading)
                  THEN SubSeq(content, Len(InsightsHeading) + 1, Len(content))
                  ELSE content)
              \o Separator \o conclusion

====
